---- MODULE Spec2Model ----
(***************************************************************************)
(* A model of the Unity test adapter (src/adapter.ts): the load / run /    *)
(* debug / cancel operations of UnityAdapter, its two mutexes and process  *)
(* slots, and the events it fires.                                         *)
(*                                                                         *)
(* JavaScript runs one synchronous segment at a time.  Every action below  *)
(* is one such segment: from the resumption of an async function (a call   *)
(* from the host, a process' completion callback, the completion of a file *)
(* system request, a mutex ticket) to its next suspension.  Awaits on      *)
(* promises of functions that never suspend (checkTestResult, a runSuites  *)
(* call that finds no suite) are microtask boundaries inside a segment.    *)
(***************************************************************************)
EXTENDS Integers, Sequences, FiniteSets, TLC

(***************************************************************************)
(* Bounds of the model.                                                    *)
(***************************************************************************)
MaxCalls == 2      \* run() / debug() / createFolders() calls in a behaviour
MaxLoads == 2      \* load() calls in a behaviour
MaxProcs == 4      \* processes spawned in a behaviour
MaxCancels == 1    \* cancel() calls in a behaviour

Calls == 1..MaxCalls
Loads == 1..MaxLoads

None == 0          \* undefined: no process in a slot, no holder of a mutex
Undefined == [type |-> "undefined", id |-> <<>>]

(***************************************************************************)
(* Strings are sequences of tokens: the function prefix "test_" is one     *)
(* token, "(" stands for text that is not a valid regular expression.      *)
(***************************************************************************)
testFunctionPrefix == "test_"

NameA == <<"test_", "a">>
NameB == <<"test_", "b">>
NameC == <<"test_", "c", "(">>     \* void test_c(int (*f)(int)) is captured as test_c(int (*f)

(***************************************************************************)
(* The file system the adapter scans.  Paths are written out in full, the  *)
(* name of an entry is given as its tokens (stem, suffix, extension).      *)
(***************************************************************************)
WsDir == "ws"
Dirs == {"ws", "ws/d1", "ws/d2"}
FileA == "ws/d1/a_test.c"
FileB == "ws/d2/b_test.c"
FileC == "ws/d2/c_test.c"
FileM == "ws/d2/m.c"
Files == {FileA, FileB, FileC, FileM}
NoPath == ""       \* the path getFileList returns for a directory it cannot read

DirEntries(d) ==
    CASE d = "ws"    -> <<"ws/d1", "ws/d2">>
      [] d = "ws/d1" -> <<FileA>>
      [] d = "ws/d2" -> <<FileB, FileC, FileM>>
      [] OTHER       -> <<>>

ItemName(p) ==
    CASE p = FileA -> <<"a", "_test", ".c">>
      [] p = FileB -> <<"b", "_test", ".c">>
      [] p = FileC -> <<"c", "_test", ".c">>
      [] p = FileM -> <<"m", ".c">>
      [] OTHER     -> <<"d">>

\* The test functions a file declares, in file order: the name testNameRegex
\* captures, the 0-based line of the declaration, the place in the text where
\* the match of testNameRegex begins and the place after its end.
FileTests(f) ==
    CASE f = FileA -> << [name |-> NameA, line |-> 3, index |-> 40,  end |-> 58],
                         [name |-> NameB, line |-> 8, index |-> 120, end |-> 138] >>
      [] f = FileB -> << [name |-> NameB, line |-> 5, index |-> 70,  end |-> 88] >>
      [] f = FileC -> << [name |-> NameC, line |-> 2, index |-> 20,  end |-> 50],
                         [name |-> NameA, line |-> 6, index |-> 90,  end |-> 108] >>
      [] OTHER     -> <<>>

\* A snapshot of the file system at the time of a scan: the directories that
\* cannot be read and the files that are gone.
FsSnapshots ==
    { [unreadable |-> u, missing |-> m] :
        u \in {{}, {"ws/d1"}, {"ws"}},
        m \in {{FileC}, {FileA, FileC}, {}} }

(***************************************************************************)
(* Source Scanner: getFileList.                                            *)
(***************************************************************************)
\* sourceFileRegex, /.*.[(h)(c)]/ once the template literal dropped the
\* backslash: some character followed by one of ( h ) c.
sourceFileRegexTest(name) ==
    \E i \in DOMAIN name : name[i] \in {".c", ".h"}

\* testSourceRegex, /.*_test.c/: the suffix "_test", a character, "c".
testSourceRegexTest(name) ==
    \E i \in DOMAIN name : i < Len(name) /\ name[i] = "_test" /\ name[i + 1] = ".c"

fileRegexTest(fileRegex, name) ==
    IF fileRegex = "testSourceRegex" THEN testSourceRegexTest(name)
                                     ELSE sourceFileRegexTest(name)

RECURSIVE getFileList(_, _, _)
RECURSIVE getFileListItems(_, _, _, _, _)

\* The loop of the finally block over filesAndFolders, from item i on.
getFileListItems(filesAndFolders, i, files, fileRegex, fs) ==
    IF i > Len(filesAndFolders) THEN files
    ELSE LET fullPath == filesAndFolders[i] IN
         IF fullPath \in Files
         THEN getFileListItems(filesAndFolders, i + 1,
                  IF fileRegexTest(fileRegex, ItemName(fullPath))
                  THEN Append(files, fullPath) ELSE files,
                  fileRegex, fs)
         ELSE getFileListItems(filesAndFolders, i + 1,
                  files \o getFileList(fullPath, fileRegex, fs), fileRegex, fs)

\* readdir of a directory in the snapshot fs: its entries that still exist.
readdir(filePath, fs) ==
    SelectSeq(DirEntries(filePath), LAMBDA p : p \notin fs.missing)

getFileList(filePath, fileRegex, fs) ==
    IF filePath \in fs.unreadable
    THEN <<NoPath>>        \* catch: return ['']; the finally loop runs over []
    ELSE getFileListItems(readdir(filePath, fs), 1, <<>>, fileRegex, fs)

(***************************************************************************)
(* Suite Tree Builder: setTestLabel, loadTests.                            *)
(***************************************************************************)
setTestLabel(testName, isPrettyTestLabelEnable) ==
    IF isPrettyTestLabelEnable /\ testName # <<>> /\ testName[1] = testFunctionPrefix
    THEN Tail(testName)
    ELSE testName

SuiteId(file) == <<file>>
TestId(file, testName) == <<file, "::">> \o testName
RootId == <<"root">>

\* One pass of the while loop of loadTests: the TestInfo of a declaration.
TestInfoOf(file, decl, pretty) ==
    [type  |-> "test",
     id    |-> TestId(file, decl.name),
     label |-> setTestLabel(decl.name, pretty),
     file  |-> file,
     line  |-> decl.line]

\* As testNameRegexExec, had a failed exec left lastIndex where it was.
testNameRegexExecSticky(file, lastIndex) ==
    LET decls == FileTests(file)
        from  == {i \in DOMAIN decls : decls[i].index >= lastIndex}
    IN  IF from = {} THEN [match |-> 0, lastIndex |-> lastIndex]
        ELSE LET i == CHOOSE i \in from : \A j \in from : i <= j
             IN  [match |-> i, lastIndex |-> decls[i].end]

\* testRegex.exec(fileText) of the global regex testNameRegex: the search
\* starts at lastIndex; a match (the number of the declaration) moves
\* lastIndex to its end, a failed search (match 0) resets lastIndex to 0.
testNameRegexExec(file, lastIndex) ==
    LET decls == FileTests(file)
        from  == {i \in DOMAIN decls : decls[i].index >= lastIndex}
    IN  IF from = {} THEN [match |-> 0, lastIndex |-> 0]
        ELSE LET i == CHOOSE i \in from : \A j \in from : i <= j
             IN  [match |-> i, lastIndex |-> decls[i].end]

RECURSIVE execLoop(_, _, _, _)
\* while (match != null) of loadTests: the children pushed, lastIndex at the end.
execLoop(file, pretty, match, children) ==
    IF match.match = 0
    THEN [children |-> children, lastIndex |-> match.lastIndex]
    ELSE execLoop(file, pretty, testNameRegexExec(file, match.lastIndex),
                  Append(children, TestInfoOf(file, FileTests(file)[match.match], pretty)))

\* The body of the for loop of loadTests for one file that was read, with the
\* regex's lastIndex as the exec loop finds it and leaves it.
SuiteInfoFrom(file, pretty, lastIndex) ==
    LET r == execLoop(file, pretty, testNameRegexExec(file, lastIndex), <<>>) IN
    [suite |-> [type     |-> "suite",
                id       |-> SuiteId(file),
                label    |-> file,
                file     |-> file,
                children |-> r.children],
     lastIndex |-> r.lastIndex]

\* The suite built from a file when the exec loop starts with lastIndex 0.
SuiteInfoOf(file, pretty) == SuiteInfoFrom(file, pretty, 0).suite

RootOf(children) ==
    [type |-> "suite", id |-> RootId, label |-> "Unity", children |-> children]

(***************************************************************************)
(* findSuite, findNode.                                                    *)
(***************************************************************************)
RECURSIVE findSuite(_, _)
RECURSIVE findSuiteFrom(_, _, _)

findSuiteFrom(searchNode, id, i) ==
    IF i > Len(searchNode.children) THEN Undefined
    ELSE LET child == searchNode.children[i] IN
         IF child.id = id
         THEN (IF child.type = "suite" THEN child ELSE searchNode)
         ELSE IF child.type = "suite"
              THEN LET found == findSuite(child, id) IN
                   IF found.type # "undefined" THEN found
                   ELSE findSuiteFrom(searchNode, id, i + 1)
              ELSE findSuiteFrom(searchNode, id, i + 1)

findSuite(searchNode, id) ==
    IF searchNode.type = "suite" THEN findSuiteFrom(searchNode, id, 1) ELSE Undefined

RECURSIVE findNode(_, _)
RECURSIVE findNodeFrom(_, _, _)

findNodeFrom(searchNode, id, i) ==
    IF i > Len(searchNode.children) THEN Undefined
    ELSE LET found == findNode(searchNode.children[i], id) IN
         IF found.type # "undefined" THEN found
         ELSE findNodeFrom(searchNode, id, i + 1)

findNode(searchNode, id) ==
    IF searchNode.id = id THEN searchNode
    ELSE IF searchNode.type = "suite" THEN findNodeFrom(searchNode, id, 1)
    ELSE Undefined

(***************************************************************************)
(* Events fired on testStatesEmitter, and the other entries of a call's    *)
(* trace: the processes it spawned, the results it was handed, the error   *)
(* messages it showed, the Result Parser invocations it made.              *)
(***************************************************************************)
RunStarted(tests) == [type |-> "started", tests |-> tests]
RunFinished == [type |-> "finished"]
SuiteEvent(id, state) == [type |-> "suite", suite |-> id, state |-> state]
TestEvent(id, state, decorations) ==
    [type |-> "test", test |-> id, state |-> state, decorations |-> decorations]

Spawned(domain, pid) == [type |-> "spawn", domain |-> domain, pid |-> pid]
Resolved(pid, result) ==
    [type |-> "result", pid |-> pid, error |-> result.error,
     errorOnly |-> result.error /\ result.stdout = <<>>]
ErrorMessage(text) == [type |-> "showErrorMessage", text |-> text]
Checked(node, suiteResult) ==
    [type |-> "checkTestResult", test |-> node.id, label |-> node.label,
     suiteResult |-> suiteResult]

IsEvent(e) == e.type \in {"started", "finished", "suite", "test"}

(***************************************************************************)
(* What a process hands to its completion callback.  stdout is a sequence  *)
(* of lines, a result line being :<num>:<name>:PASS or :<num>:<name>:FAIL: *)
(* <msg>; stderr is a sequence of tokens.                                  *)
(***************************************************************************)
Busy == "The process cannot access the file because it is being used by another process"

ResultLine(num, name, pass, msg) ==
    [kind |-> "result", num |-> num, name |-> name, pass |-> pass, msg |-> msg]

OutAll == << ResultLine(12, NameA, TRUE, ""),
             ResultLine(20, NameB, FALSE, "Expected 4 Was 5") >>

Results ==
    { [error |-> FALSE, stdout |-> OutAll,  stderr |-> <<>>],
      [error |-> FALSE, stdout |-> <<>>,    stderr |-> <<>>],
      [error |-> TRUE,  stdout |-> <<>>,    stderr |-> <<"make:", Busy>>],
      [error |-> TRUE,  stdout |-> <<>>,    stderr |-> <<Busy>>],
      [error |-> TRUE,  stdout |-> OutAll,  stderr |-> <<>>] }

(***************************************************************************)
(* Result Parser: checkTestResult.                                         *)
(***************************************************************************)
\* new RegExp(':([0-9]+):.*' + label + testResultString) throws a SyntaxError
\* when the label is not the source of a regular expression.
ValidRegex(label) == \A i \in DOMAIN label : label[i] # "("

IsSuffix(s, t) ==
    Len(s) <= Len(t) /\ SubSeq(t, Len(t) - Len(s) + 1, Len(t)) = s

\* The pattern matches in a result line whose name field ends with the label.
LineMatches(label, ln) == ln.kind = "result" /\ IsSuffix(label, ln.name)

\* testResultRegex.exec(suiteResult): the first line with a match, 0 for null.
regexExec(label, suiteResult) ==
    IF \E i \in DOMAIN suiteResult : LineMatches(label, suiteResult[i])
    THEN CHOOSE i \in DOMAIN suiteResult :
            /\ LineMatches(label, suiteResult[i])
            /\ \A j \in 1..(i - 1) : ~LineMatches(label, suiteResult[j])
    ELSE 0

RECURSIVE Digits(_)
\* The digits of a line number as the runner prints it: what ([0-9]+) captures.
Digits(n) == IF n < 10 THEN <<n>> ELSE Append(Digits(n \div 10), n % 10)

RECURSIVE parseInt(_)
parseInt(digits) ==
    IF digits = <<>> THEN 0
    ELSE 10 * parseInt(SubSeq(digits, 1, Len(digits) - 1)) + digits[Len(digits)]

\* As decorationLine, had the line number been reported as printed.
decorationLineAsPrinted(digits) == parseInt(digits)

\* line: parseInt(match[1]) - 1
decorationLine(digits) == parseInt(digits) - 1

\* As checkTestResult, had it reported a test without a result line as failed.
checkTestResultStrict(node, suiteResult) ==
    LET running == <<Checked(node, suiteResult), TestEvent(node.id, "running", <<>>)>>
        match   == regexExec(node.label, suiteResult)
    IN  IF ~ValidRegex(node.label)
        THEN [fired |-> running, thrown |-> TRUE]
        ELSE IF match # 0 /\ suiteResult[match].pass
        THEN [fired |-> Append(running, TestEvent(node.id, "passed", <<>>)),
              thrown |-> FALSE]
        ELSE [fired |-> Append(running, TestEvent(node.id, "failed", <<>>)),
              thrown |-> FALSE]

\* The entries checkTestResult adds to the trace, and whether it threw.
checkTestResult(node, suiteResult) ==
    LET running == <<Checked(node, suiteResult), TestEvent(node.id, "running", <<>>)>>
        match   == regexExec(node.label, suiteResult)
    IN  IF ~ValidRegex(node.label)
        THEN [fired |-> running, thrown |-> TRUE]
        ELSE IF match = 0
        THEN [fired |-> running, thrown |-> FALSE]
        ELSE IF suiteResult[match].pass
        THEN [fired |-> Append(running, TestEvent(node.id, "passed", <<>>)),
              thrown |-> FALSE]
        ELSE [fired |-> Append(running, TestEvent(node.id, "failed",
                           << [line    |-> decorationLine(Digits(suiteResult[match].num)),
                               message |-> suiteResult[match].msg] >>)),
              thrown |-> FALSE]

(***************************************************************************)
(* Run Orchestrator: the synchronous segments of run, runSuites and        *)
(* runSuiteExe.  A segment takes the locals c of the call and its trace tr *)
(* and yields the locals and the trace at the next suspension, with the    *)
(* mutex whose acquire() the call then awaits.                             *)
(***************************************************************************)
NoCall ==
    [kind |-> "none", tests |-> <<>>, pc |-> "idle",
     list |-> <<>>, idx |-> 0, suite |-> Undefined, proc |-> None]

\* A call that returned or threw: its other locals are gone, the ids it
\* iterated are kept for the record.
Settled(c, pc) ==
    [NoCall EXCEPT !.kind = c.kind, !.tests = c.tests, !.list = c.list, !.pc = pc]

\* result.stderr.search(Busy): the 0-based place of the text, -1 without it.
stderrSearch(stderr) ==
    IF \E i \in DOMAIN stderr : stderr[i] = Busy
    THEN (CHOOSE i \in DOMAIN stderr :
            stderr[i] = Busy /\ \A j \in 1..(i - 1) : stderr[j] # Busy) - 1
    ELSE -1

\* for (const child of suite.children) fire failed
failAll(children) ==
    [i \in DOMAIN children |-> TestEvent(children[i].id, "failed", <<>>)]

RECURSIVE checkChildren(_, _, _, _)
\* for (const child of suite.children) await checkTestResult(child, stdout)
checkChildren(children, i, stdout, fired) ==
    IF i > Len(children) THEN [fired |-> fired, thrown |-> FALSE]
    ELSE IF children[i].type = "test"
    THEN LET r == checkTestResult(children[i], stdout) IN
         IF r.thrown THEN [fired |-> fired \o r.fired, thrown |-> TRUE]
         ELSE checkChildren(children, i + 1, stdout, fired \o r.fired)
    ELSE checkChildren(children, i + 1, stdout, fired)

\* As reportResult, had a failed run of a test id failed the requested test only.
reportResultRequested(suiteOrTestId, suite, result, tree) ==
    IF suiteOrTestId = suite.id
    THEN IF result.error /\ result.stdout = <<>>
         THEN [fired  |-> failAll(suite.children) \o
                          (IF stderrSearch(result.stderr) # 0
                           THEN <<ErrorMessage("Cannot run test executable")>>
                           ELSE <<>>),
               thrown |-> FALSE]
         ELSE checkChildren(suite.children, 1, result.stdout, <<>>)
    ELSE IF result.error /\ result.stdout = <<>>
         THEN [fired  |-> << TestEvent(suiteOrTestId, "failed", <<>>),
                             ErrorMessage("Cannot run test executable") >>,
               thrown |-> FALSE]
         ELSE LET node == findNode(tree, suiteOrTestId) IN
              IF node.type = "test"
              THEN checkTestResult(node, result.stdout)
              ELSE [fired |-> <<>>, thrown |-> FALSE]

\* runSuites after runSuiteExe returned result for suiteOrTestId.
reportResult(suiteOrTestId, suite, result, tree) ==
    IF suiteOrTestId = suite.id
    THEN IF result.error /\ result.stdout = <<>>
         THEN [fired  |-> failAll(suite.children) \o
                          (IF stderrSearch(result.stderr) # 0
                           THEN <<ErrorMessage("Cannot run test executable")>>
                           ELSE <<>>),
               thrown |-> FALSE]
         ELSE checkChildren(suite.children, 1, result.stdout, <<>>)
    ELSE IF result.error /\ result.stdout = <<>>
         THEN [fired  |-> Append(failAll(suite.children),
                                 ErrorMessage("Cannot run test executable")),
               thrown |-> FALSE]
         ELSE LET node == findNode(tree, suiteOrTestId) IN
              IF node.type = "test"
              THEN checkTestResult(node, result.stdout)
              ELSE [fired |-> <<>>, thrown |-> FALSE]

RECURSIVE runSuites(_, _, _)
\* The loop over the ids from c.idx on: up to runMake's acquire for the next
\* id that resolves to a suite, or to the end of run.
runSuites(c, tr, tree) ==
    IF c.idx > Len(c.list)
    THEN [c |-> Settled(c, "done"), tr |-> Append(tr, RunFinished), acquire |-> "none"]
    ELSE LET suite == findSuite(tree, c.list[c.idx]) IN
         IF suite.type = "suite"
         THEN [c  |-> [c EXCEPT !.pc = "buildAcq", !.suite = suite],
               tr |-> Append(tr, SuiteEvent(suite.id, "running")),
               acquire |-> "make"]
         ELSE runSuites([c EXCEPT !.idx = @ + 1], tr, tree)

\* As expandTests, had run passed 'root' on to runSuites like any other id.
expandTestsVerbatim(c, tr, tree) ==
    runSuites([c EXCEPT !.list = c.tests, !.idx = 1], tr, tree)

\* run from "if (tests[0] === 'root')" on.
expandTests(c, tr, tree) ==
    LET list == IF c.tests # <<>> /\ c.tests[1] = RootId
                THEN [i \in DOMAIN tree.children |-> tree.children[i].id]
                ELSE c.tests
    IN  runSuites([c EXCEPT !.list = list, !.idx = 1], tr, tree)

\* As afterSuiteExe, had runSuites gone on to the next id before reporting.
afterSuiteExeLate(c, tr, result, tree) ==
    LET r   == reportResult(c.list[c.idx], c.suite, result, tree)
        seg == runSuites([c EXCEPT !.idx = @ + 1, !.suite = Undefined, !.proc = None],
                         tr, tree)
    IN  [seg EXCEPT !.tr = @ \o r.fired]

\* runSuites from the return of runSuiteExe on.
afterSuiteExe(c, tr, result, tree) ==
    LET r == reportResult(c.list[c.idx], c.suite, result, tree) IN
    IF r.thrown
    THEN [c |-> Settled(c, "failed"), tr |-> tr \o r.fired, acquire |-> "none"]
    ELSE runSuites([c EXCEPT !.idx = @ + 1, !.suite = Undefined, !.proc = None],
                   tr \o r.fired, tree)

\* run from the return of createFolders on.
afterFolders(c, tr, result, tree) ==
    expandTests([c EXCEPT !.proc = None],
                IF result.error
                THEN Append(tr, ErrorMessage("Cannot run make target to create folders"))
                ELSE tr,
                tree)

\* As afterBuild, had runSuiteExe run the executable whatever the build returned.
afterBuildAlways(c, tr, result, tree) ==
    [c |-> [c EXCEPT !.pc = "exeAcq", !.proc = None], tr |-> tr, acquire |-> "suite"]

\* runSuiteExe from the return of buildTest on.
afterBuild(c, tr, result, tree) ==
    IF result.error
    THEN afterSuiteExe(c,
             tr \o << ErrorMessage("Cannot build test executable"),
                      SuiteEvent(c.suite.id, "completed") >>,
             result, tree)
    ELSE [c |-> [c EXCEPT !.pc = "exeAcq", !.proc = None], tr |-> tr, acquire |-> "suite"]

\* As afterExe, had the completed event of the suite been fired once the
\* results of its tests were reported.
afterExeReportFirst(c, tr, result, tree) ==
    LET r == reportResult(c.list[c.idx], c.suite, result, tree) IN
    IF r.thrown
    THEN [c |-> Settled(c, "failed"), tr |-> tr \o r.fired, acquire |-> "none"]
    ELSE runSuites([c EXCEPT !.idx = @ + 1, !.suite = Undefined, !.proc = None],
                   Append(tr \o r.fired, SuiteEvent(c.suite.id, "completed")), tree)

\* runSuiteExe from the return of runTest on.
afterExe(c, tr, result, tree) ==
    afterSuiteExe(c, Append(tr, SuiteEvent(c.suite.id, "completed")), result, tree)

(***************************************************************************)
(* buildTest, runTest, debug: the path of the executable of a suite.       *)
(***************************************************************************)
\* basename.replace(extname, '.exe'): the first occurrence is replaced.
replaceFirst(name, ext, by) ==
    IF \E i \in DOMAIN name : name[i] = ext
    THEN LET k == CHOOSE i \in DOMAIN name :
                     name[i] = ext /\ \A j \in 1..(i - 1) : name[j] # ext
         IN  [name EXCEPT ![k] = by]
    ELSE name

extname(name) == name[Len(name)]

exePath(file) ==
    <<"build/">> \o replaceFirst(ItemName(file), extname(ItemName(file)), ".exe")

(***************************************************************************)
(* The state of the adapter.                                               *)
(***************************************************************************)
VARIABLES
    foldersCommandArgs,           \* configuration: "" without a folders target
    isPrettyTestLabelEnable,      \* configuration
    testSuiteInfo,                \* the current suite tree
    watchedFileForAutorunList,
    watchedFileForReloadList,
    makeProcess, suiteProcess,    \* the process slots: a pid or None
    makeMutex, suiteMutex,        \* [holder, queue]: the ticket holder, the waiters
    g_debugTestExecutable,
    procs,                        \* the processes spawned so far; a pid is an index
    running,                      \* the pids whose completion callback is outstanding
    killed,                       \* the pids tree_kill was called for
    cancels,                      \* the number of cancel() calls so far
    call,                         \* the locals of each run/debug/createFolders call
    trace,                        \* what each call fired, spawned, received, showed
    load,                         \* the locals of each load() call
    loadTrace,                    \* what each load() call fired on testsEmitter
    testNameRegex                 \* the lastIndex of the global regex testNameRegex

config == <<foldersCommandArgs, isPrettyTestLabelEnable>>
watchLists == <<watchedFileForAutorunList, watchedFileForReloadList>>
slots == <<makeProcess, suiteProcess>>
mutexes == <<makeMutex, suiteMutex>>
processes == <<procs, running>>
loads == <<load, loadTrace, testNameRegex>>
vars == <<config, testSuiteInfo, watchLists, slots, mutexes, g_debugTestExecutable,
          processes, killed, cancels, call, trace, loads>>

(***************************************************************************)
(* async-mutex: acquire() locks a free mutex at once, otherwise queues the *)
(* caller; release() hands the mutex to the first waiter.  The holder runs *)
(* on as a microtask.                                                      *)
(***************************************************************************)
FreeMutex == [holder |-> None, queue |-> <<>>]

Acquire(m, t) ==
    IF m.holder = None THEN [m EXCEPT !.holder = t]
                       ELSE [m EXCEPT !.queue = Append(@, t)]

Release(m) ==
    IF m.queue = <<>> THEN [m EXCEPT !.holder = None]
                      ELSE [holder |-> Head(m.queue), queue |-> Tail(m.queue)]

NoLoad == [pc |-> "idle", files |-> <<>>, k |-> 0, children |-> <<>>]

LoadStarted == [type |-> "started"]
LoadFinished(suite) == [type |-> "finished", suite |-> suite]

RECURSIVE watchFiles(_, _, _)
\* watchFilesForAutorun / watchFilesForReload: the list after the loop from i on.
watchFiles(watched, files, i) ==
    IF i > Len(files) THEN watched
    ELSE watchFiles(IF \E j \in DOMAIN watched : watched[j] = files[i]
                    THEN watched ELSE Append(watched, files[i]),
                    files, i + 1)

\* The state the constructor leaves.
Constructed ==
    /\ foldersCommandArgs \in {"", "dirs"}
    /\ isPrettyTestLabelEnable \in BOOLEAN
    /\ testSuiteInfo = RootOf(<<>>)
    /\ watchedFileForAutorunList = <<>>
    /\ watchedFileForReloadList = <<>>
    /\ makeProcess = None
    /\ suiteProcess = None
    /\ makeMutex = FreeMutex
    /\ suiteMutex = FreeMutex
    /\ g_debugTestExecutable = <<>>
    /\ procs = <<>>
    /\ running = {}
    /\ killed = {}
    /\ cancels = 0
    /\ call = [t \in Calls |-> NoCall]
    /\ trace = [t \in Calls |-> <<>>]
    /\ load = [l \in Loads |-> NoLoad]
    /\ loadTrace = [l \in Loads |-> <<>>]
    /\ testNameRegex = 0

\* The suite tree loadTests builds from files it can read.
TreeOf(files, pretty) == RootOf([i \in DOMAIN files |-> SuiteInfoOf(files[i], pretty)])

\* The state once the first load(), the one of the activation, has completed
\* in the file system fs, before any other call.
Loaded(fs) ==
    LET sourceFiles == getFileList(WsDir, "sourceFileRegex", fs)
        testFiles   == getFileList(WsDir, "testSourceRegex", fs)
    IN  /\ foldersCommandArgs \in {"", "dirs"}
        /\ isPrettyTestLabelEnable = FALSE
        /\ testSuiteInfo = TreeOf(testFiles, isPrettyTestLabelEnable)
        /\ watchedFileForAutorunList = watchFiles(watchFiles(<<>>, sourceFiles, 1), testFiles, 1)
        /\ watchedFileForReloadList = watchFiles(<<>>, testFiles, 1)
        /\ makeProcess = None
        /\ suiteProcess = None
        /\ makeMutex = FreeMutex
        /\ suiteMutex = FreeMutex
        /\ g_debugTestExecutable = <<>>
        /\ procs = <<>>
        /\ running = {}
        /\ killed = {}
        /\ cancels = 0
        /\ call = [t \in Calls |-> NoCall]
        /\ trace = [t \in Calls |-> <<>>]
        /\ load = [l \in Loads |-> IF l = 1 THEN [NoLoad EXCEPT !.pc = "done"] ELSE NoLoad]
        /\ loadTrace = [l \in Loads |->
                           IF l = 1 THEN <<LoadStarted, LoadFinished(testSuiteInfo)>>
                                    ELSE <<>>]
        /\ testNameRegex = 0

\* The file system of the first load: every directory read, every file there.
AllFiles == [unreadable |-> {}, missing |-> {}]

Init == Loaded(AllFiles)

\* The end of a segment of call t: its locals, its trace, its acquire().
Suspend(t, seg) ==
    /\ call' = [call EXCEPT ![t] = seg.c]
    /\ trace' = [trace EXCEPT ![t] = seg.tr]
    /\ makeMutex' = IF seg.acquire = "make" THEN Acquire(makeMutex, t) ELSE makeMutex
    /\ suiteMutex' = IF seg.acquire = "suite" THEN Acquire(suiteMutex, t) ELSE suiteMutex

\* Calls are numbered in the order the host makes them.
NextCall(t) ==
    /\ call[t].pc = "idle"
    /\ \A u \in Calls : u < t => call[u].pc # "idle"

\* The requests the host makes.
Requests ==
    { <<RootId>>,
      <<SuiteId(FileA), SuiteId(FileB)>>,
      <<TestId(FileA, NameB), SuiteId(FileC)>>,
      <<>> }

(***************************************************************************)
(* run(tests), up to its first suspension.                                 *)
(***************************************************************************)
run(t, tests) ==
    /\ NextCall(t)
    /\ LET c  == [NoCall EXCEPT !.kind = "run", !.tests = tests]
           tr == <<RunStarted(tests)>>
       IN  Suspend(t, IF foldersCommandArgs # ""
                      THEN [c |-> [c EXCEPT !.pc = "foldersAcq"], tr |-> tr,
                            acquire |-> "make"]
                      ELSE expandTests(c, tr, testSuiteInfo))
    /\ UNCHANGED <<config, testSuiteInfo, watchLists, slots, g_debugTestExecutable,
                   processes, killed, cancels, loads>>

(***************************************************************************)
(* createFolders(), called by the host.                                    *)
(***************************************************************************)
createFolders(t) ==
    /\ NextCall(t)
    /\ Suspend(t, [c |-> [NoCall EXCEPT !.kind = "createFolders", !.pc = "foldersAcq"],
                   tr |-> <<>>, acquire |-> "make"])
    /\ UNCHANGED <<config, testSuiteInfo, watchLists, slots, g_debugTestExecutable,
                   processes, killed, cancels, loads>>

(***************************************************************************)
(* debug(tests), with the value of g_debugTestExecutable it leaves.        *)
(***************************************************************************)
DebugRequests == { <<SuiteId(FileA)>>, <<TestId(FileB, NameB)>> }

\* The finally block of debug.
debugReturn(c, tr) ==
    [c |-> Settled(c, "done"), tr |-> tr, acquire |-> "none", g |-> <<>>]

\* debug from "Determine test suite to run" on.
debugSuite(c, tr, tree, g) ==
    LET suite == IF c.tests = <<>> THEN Undefined ELSE findSuite(tree, c.tests[1]) IN
    IF suite.type = "suite"
    THEN [c |-> [c EXCEPT !.pc = "buildAcq", !.suite = suite, !.proc = None],
          tr |-> tr, acquire |-> "make", g |-> g]
    ELSE debugReturn(c, tr)

\* debug from the return of createFolders on.
debugAfterFolders(c, tr, result, tree, g) ==
    debugSuite(c,
               IF result.error
               THEN Append(tr, ErrorMessage("Cannot run make target to create folders"))
               ELSE tr,
               tree, g)

\* debug from the return of buildTest on: up to the await of startDebugging.
debugAfterBuild(c, tr, result) ==
    IF result.error
    THEN debugReturn(c, Append(tr, ErrorMessage("Cannot build test executable")))
    ELSE [c |-> [c EXCEPT !.pc = "dbgWait", !.proc = None], tr |-> tr,
          acquire |-> "none", g |-> exePath(c.suite.file)]

debug(t, tests, debugConfiguration) ==
    /\ NextCall(t)
    /\ LET c   == [NoCall EXCEPT !.kind = "debug", !.tests = tests]
           seg == IF debugConfiguration = ""
                  THEN debugReturn(c, <<ErrorMessage("No debug configuration specified")>>)
                  ELSE IF foldersCommandArgs # ""
                  THEN [c |-> [c EXCEPT !.pc = "foldersAcq"], tr |-> <<>>,
                        acquire |-> "make", g |-> g_debugTestExecutable]
                  ELSE debugSuite(c, <<>>, testSuiteInfo, g_debugTestExecutable)
       IN  /\ Suspend(t, seg)
           /\ g_debugTestExecutable' = seg.g
    /\ UNCHANGED <<config, testSuiteInfo, watchLists, slots, processes, killed,
                   cancels, loads>>

\* Process completions and file system completions are macrotasks: they run
\* once no ticket holder is waiting to run on.
MicrotasksDone == makeMutex.holder = None /\ suiteMutex.holder = None

\* vscode.debug.startDebugging settles.
startDebuggingDone(t, started) ==
    /\ call[t].pc = "dbgWait"
    /\ MicrotasksDone
    /\ LET seg == debugReturn(call[t],
                      IF started THEN trace[t]
                      ELSE Append(trace[t], ErrorMessage("Debugger could not be started")))
       IN  /\ Suspend(t, seg)
           /\ g_debugTestExecutable' = seg.g
    /\ UNCHANGED <<config, testSuiteInfo, watchLists, slots, processes, killed,
                   cancels, loads>>

\* What the debug configuration resolver reads.
getDebugTestExecutable == g_debugTestExecutable

(***************************************************************************)
(* Process Coordinator: runMake and runExe from the grant of the mutex to  *)
(* the await of the process: spawn, set the slot, release.                 *)
(***************************************************************************)
runMake(t) ==
    /\ makeMutex.holder = t
    /\ Len(procs) < MaxProcs
    /\ LET pid == Len(procs) + 1 IN
       /\ procs' = Append(procs, [domain |-> "make", owner |-> t])
       /\ running' = running \cup {pid}
       /\ makeProcess' = pid
       /\ call' = [call EXCEPT ![t].proc = pid,
                                ![t].pc = IF @ = "foldersAcq" THEN "foldersProc"
                                                              ELSE "buildProc"]
       /\ trace' = [trace EXCEPT ![t] = Append(@, Spawned("make", pid))]
    /\ makeMutex' = Release(makeMutex)
    /\ UNCHANGED <<config, testSuiteInfo, watchLists, suiteProcess, suiteMutex,
                   g_debugTestExecutable, killed, cancels, loads>>

runExe(t) ==
    /\ suiteMutex.holder = t
    /\ Len(procs) < MaxProcs
    /\ LET pid == Len(procs) + 1 IN
       /\ procs' = Append(procs, [domain |-> "exe", owner |-> t])
       /\ running' = running \cup {pid}
       /\ suiteProcess' = pid
       /\ call' = [call EXCEPT ![t].proc = pid, ![t].pc = "exeProc"]
       /\ trace' = [trace EXCEPT ![t] = Append(@, Spawned("exe", pid))]
    /\ suiteMutex' = Release(suiteMutex)
    /\ UNCHANGED <<config, testSuiteInfo, watchLists, makeProcess, makeMutex,
                   g_debugTestExecutable, killed, cancels, loads>>

\* As Resolves, had the callback resolved the promise of the process in the slot.
ResolvesSlot(pid) ==
    procs[IF procs[pid].domain = "make" THEN makeProcess ELSE suiteProcess].owner

\* The call whose promise the completion callback of process pid resolves: the
\* callback closes over the resolve of the promise made with the process.
Resolves(pid) == procs[pid].owner

\* The call from the resolution of the promise it awaits to its next suspension.
Continue(c, tr, result, tree, g) ==
    LET keep(seg) == [c |-> seg.c, tr |-> seg.tr, acquire |-> seg.acquire, g |-> g] IN
    CASE c.kind = "run" /\ c.pc = "foldersProc"   -> keep(afterFolders(c, tr, result, tree))
      [] c.kind = "run" /\ c.pc = "buildProc"     -> keep(afterBuild(c, tr, result, tree))
      [] c.kind = "run" /\ c.pc = "exeProc"       -> keep(afterExe(c, tr, result, tree))
      [] c.kind = "debug" /\ c.pc = "foldersProc" -> debugAfterFolders(c, tr, result, tree, g)
      [] c.kind = "debug" /\ c.pc = "buildProc"   -> debugAfterBuild(c, tr, result)
      [] OTHER -> [c |-> Settled(c, "done"), tr |-> tr, acquire |-> "none", g |-> g]

Awaits(c, domain) ==
    IF domain = "make" THEN c.pc \in {"foldersProc", "buildProc"} ELSE c.pc = "exeProc"

\* As processExit, had the completion callback cleared the slot of its process.
processExitClearing(pid, result) ==
    /\ pid \in running
    /\ MicrotasksDone
    /\ running' = running \ {pid}
    /\ makeProcess' = IF makeProcess = pid THEN None ELSE makeProcess
    /\ suiteProcess' = IF suiteProcess = pid THEN None ELSE suiteProcess
    /\ LET t == Resolves(pid) IN
       IF Awaits(call[t], procs[pid].domain)
       THEN LET seg == Continue(call[t], Append(trace[t], Resolved(pid, result)),
                                result, testSuiteInfo, g_debugTestExecutable)
            IN  /\ Suspend(t, seg)
                /\ g_debugTestExecutable' = seg.g
       ELSE UNCHANGED <<call, trace, mutexes, g_debugTestExecutable>>
    /\ UNCHANGED <<config, testSuiteInfo, watchLists, procs, killed, cancels, loads>>

\* The completion callback of process pid, with the result of the process.
processExit(pid, result) ==
    /\ pid \in running
    /\ MicrotasksDone
    /\ running' = running \ {pid}
    /\ LET t == Resolves(pid) IN
       IF Awaits(call[t], procs[pid].domain)
       THEN LET seg == Continue(call[t], Append(trace[t], Resolved(pid, result)),
                                result, testSuiteInfo, g_debugTestExecutable)
            IN  /\ Suspend(t, seg)
                /\ g_debugTestExecutable' = seg.g
       ELSE UNCHANGED <<call, trace, mutexes, g_debugTestExecutable>>
    /\ UNCHANGED <<config, testSuiteInfo, watchLists, slots, procs, killed, cancels,
                   loads>>

(***************************************************************************)
(* cancel().                                                               *)
(***************************************************************************)
\* As cancel, had it cleared the slot of the build process it kills.
cancelClearing ==
    /\ cancels < MaxCancels
    /\ cancels' = cancels + 1
    /\ killed' = killed \cup ({makeProcess, suiteProcess} \ {None})
    /\ makeProcess' = None
    /\ UNCHANGED <<config, testSuiteInfo, watchLists, suiteProcess, mutexes,
                   g_debugTestExecutable, processes, call, trace, loads>>

cancel ==
    /\ cancels < MaxCancels
    /\ cancels' = cancels + 1
    /\ killed' = killed \cup ({makeProcess, suiteProcess} \ {None})
    /\ UNCHANGED <<config, testSuiteInfo, watchLists, slots, mutexes,
                   g_debugTestExecutable, processes, call, trace, loads>>

(***************************************************************************)
(* load().                                                                 *)
(***************************************************************************)
NextLoad(l) ==
    /\ load[l].pc = "idle"
    /\ \A m \in Loads : m < l => load[m].pc # "idle"

\* load up to the readdir of its first getFileList.
loadStart(l) ==
    /\ NextLoad(l)
    /\ load' = [load EXCEPT ![l].pc = "scan"]
    /\ loadTrace' = [loadTrace EXCEPT ![l] = <<LoadStarted>>]
    /\ UNCHANGED <<config, testSuiteInfo, watchLists, slots, mutexes,
                   g_debugTestExecutable, processes, killed, cancels, call, trace,
                   testNameRegex>>

\* As loadPublish, had a load kept the tree of a load that completed before it.
loadPublishFirst(l, children) ==
    LET tree == IF \E m \in Loads : load[m].pc = "done" THEN testSuiteInfo
                                                       ELSE RootOf(children)
    IN  /\ testSuiteInfo' = tree
        /\ load' = [load EXCEPT ![l] = [NoLoad EXCEPT !.pc = "done"]]
        /\ loadTrace' = [loadTrace EXCEPT ![l] = Append(@, LoadFinished(tree))]

\* load from the end of loadTests on: the tree is published.
loadPublish(l, children) ==
    /\ testSuiteInfo' = RootOf(children)
    /\ load' = [load EXCEPT ![l] = [NoLoad EXCEPT !.pc = "done"]]
    /\ loadTrace' = [loadTrace EXCEPT ![l] = Append(@, LoadFinished(RootOf(children)))]

\* The two scans of load, in the file system fs, the watches of their files,
\* and loadTests up to its first readFile.
loadScanned(l, fs) ==
    /\ load[l].pc = "scan"
    /\ MicrotasksDone
    /\ LET sourceFiles == getFileList(WsDir, "sourceFileRegex", fs)
           testFiles   == getFileList(WsDir, "testSourceRegex", fs)
       IN  /\ watchedFileForAutorunList' =
                  watchFiles(watchFiles(watchedFileForAutorunList, sourceFiles, 1),
                             testFiles, 1)
           /\ watchedFileForReloadList' = watchFiles(watchedFileForReloadList, testFiles, 1)
           /\ IF testFiles = <<>>
              THEN loadPublish(l, <<>>)
              ELSE /\ load' = [load EXCEPT ![l] = [pc |-> "read", files |-> testFiles,
                                                    k |-> 1, children |-> <<>>]]
                   /\ UNCHANGED <<testSuiteInfo, loadTrace>>
    /\ UNCHANGED <<config, slots, mutexes, g_debugTestExecutable, processes, killed,
                   cancels, call, trace, testNameRegex>>

\* As loadRead, had a failed readFile published the suites built so far.
loadReadPartial(l, read) ==
    /\ load[l].pc = "read"
    /\ MicrotasksDone
    /\ LET file == load[l].files[load[l].k] IN
       /\ file = NoPath => ~read
       /\ IF ~read
          THEN /\ load' = [load EXCEPT ![l] = [NoLoad EXCEPT !.pc = "failed"]]
               /\ testSuiteInfo' = RootOf(load[l].children)
               /\ UNCHANGED <<loadTrace, testNameRegex>>
          ELSE LET built    == SuiteInfoFrom(file, isPrettyTestLabelEnable, testNameRegex)
                   children == Append(load[l].children, built.suite)
               IN  /\ testNameRegex' = built.lastIndex
                   /\ IF load[l].k = Len(load[l].files)
                      THEN loadPublish(l, children)
                      ELSE /\ load' = [load EXCEPT ![l].k = @ + 1,
                                                    ![l].children = children]
                           /\ UNCHANGED <<testSuiteInfo, loadTrace>>
    /\ UNCHANGED <<config, watchLists, slots, mutexes, g_debugTestExecutable,
                   processes, killed, cancels, call, trace>>

\* readFile of the k-th test file settles; the file is parsed, the next is read.
loadRead(l, read) ==
    /\ load[l].pc = "read"
    /\ MicrotasksDone
    /\ LET file == load[l].files[load[l].k] IN
       /\ file = NoPath => ~read
       /\ IF ~read
          THEN /\ load' = [load EXCEPT ![l] = [NoLoad EXCEPT !.pc = "failed"]]
               /\ UNCHANGED <<testSuiteInfo, loadTrace, testNameRegex>>
          ELSE LET built    == SuiteInfoFrom(file, isPrettyTestLabelEnable, testNameRegex)
                   children == Append(load[l].children, built.suite)
               IN  /\ testNameRegex' = built.lastIndex
                   /\ IF load[l].k = Len(load[l].files)
                      THEN loadPublish(l, children)
                      ELSE /\ load' = [load EXCEPT ![l].k = @ + 1,
                                                    ![l].children = children]
                           /\ UNCHANGED <<testSuiteInfo, loadTrace>>
    /\ UNCHANGED <<config, watchLists, slots, mutexes, g_debugTestExecutable,
                   processes, killed, cancels, call, trace>>

(***************************************************************************)
(* Spec: the calls of the host after the first load, and cancel().         *)
(***************************************************************************)
Next ==
    \/ \E t \in Calls, tests \in Requests : run(t, tests)
    \/ \E t \in Calls : createFolders(t)
    \/ \E t \in Calls, tests \in DebugRequests, cfg \in {"", "gdb"} : debug(t, tests, cfg)
    \/ \E t \in Calls, started \in BOOLEAN : startDebuggingDone(t, started)
    \/ \E t \in Calls : runMake(t)
    \/ \E t \in Calls : runExe(t)
    \/ \E pid \in running, result \in Results : processExit(pid, result)
    \/ cancel

Spec == Init /\ [][Next]_vars

(***************************************************************************)
(* SpecReload: run() calls after the first load, with further loads in a   *)
(* file system where FileA and FileC were deleted.                         *)
(***************************************************************************)
LaterSnapshots == { [unreadable |-> {}, missing |-> {FileA, FileC}] }

ReloadNext ==
    \/ \E t \in Calls, tests \in Requests : run(t, tests)
    \/ \E t \in Calls : runMake(t)
    \/ \E t \in Calls : runExe(t)
    \/ \E pid \in running, result \in Results : processExit(pid, result)
    \/ \E l \in Loads : loadStart(l)
    \/ \E l \in Loads, fs \in LaterSnapshots : loadScanned(l, fs)
    \/ \E l \in Loads, read \in BOOLEAN : loadRead(l, read)

SpecReload == Init /\ [][ReloadNext]_vars

(***************************************************************************)
(* SpecLoad: load() calls from the constructor on, in every file system.   *)
(***************************************************************************)
LoadNext ==
    \/ \E l \in Loads : loadStart(l)
    \/ \E l \in Loads, fs \in FsSnapshots : loadScanned(l, fs)
    \/ \E l \in Loads, read \in BOOLEAN : loadRead(l, read)

SpecLoad == Constructed /\ [][LoadNext]_vars

(***************************************************************************)
(* Reading a call's trace.                                                 *)
(***************************************************************************)
IsRun(t) == call[t].kind = "run"

Events(tr) == SelectSeq(tr, IsEvent)

IsSuiteEvent(e, state) == e.type = "suite" /\ e.state = state

\* The suites of the suite-running events of a trace, in the order fired.
RanSuites(tr) ==
    LET ev == SelectSeq(tr, LAMBDA e : IsSuiteEvent(e, "running")) IN
    [i \in DOMAIN ev |-> ev[i].suite]

IsSpawn(e, domain) == e.type = "spawn" /\ e.domain = domain

\* Entry i of tr is the result of the build of a suite, of its executable.
IsBuildResult(tr, i) ==
    /\ i >= 3
    /\ tr[i].type = "result"
    /\ IsSpawn(tr[i - 1], "make")
    /\ IsSuiteEvent(tr[i - 2], "running")

IsExeResult(tr, i) ==
    /\ i >= 2
    /\ tr[i].type = "result"
    /\ IsSpawn(tr[i - 1], "exe")

\* The first entry after i that opens the next id or ends the run, else the
\* place after the end of the trace.
NextId(tr, i) ==
    IF \E j \in (i + 1)..Len(tr) : IsSuiteEvent(tr[j], "running") \/ tr[j].type = "finished"
    THEN CHOOSE j \in (i + 1)..Len(tr) :
            /\ IsSuiteEvent(tr[j], "running") \/ tr[j].type = "finished"
            /\ \A k \in (i + 1)..(j - 1) :
                  ~(IsSuiteEvent(tr[k], "running") \/ tr[k].type = "finished")
    ELSE Len(tr) + 1

\* The suite of the last suite-running event before entry i.
SuiteAt(tr, i) ==
    LET j == CHOOSE j \in 1..(i - 1) :
                /\ IsSuiteEvent(tr[j], "running")
                /\ \A k \in (j + 1)..(i - 1) : ~IsSuiteEvent(tr[k], "running")
    IN  tr[j].suite

(***************************************************************************)
(* C1: under any interleaving of run, debug and createFolders calls, at    *)
(* most one process spawned by runMake is still running, and at most one   *)
(* spawned by runExe.                                                      *)
(* The code breaks it: "return new Promise(...)" leaves the try block at   *)
(* once, so the finally block releases the mutex right after the spawn.    *)
(***************************************************************************)
RunningIn(domain) == {pid \in running : procs[pid].domain = domain}

C1_OneProcessPerDomain ==
    /\ Cardinality(RunningIn("make")) <= 1
    /\ Cardinality(RunningIn("exe")) <= 1

(***************************************************************************)
(* C2: the events of a run() call follow Started -> (suite Running ->      *)
(* suite Completed)* -> Finished: started is the first event and fired     *)
(* once, finished is fired exactly once and last, so a call that has       *)
(* settled has fired it, and each suite-running event is followed by the   *)
(* completed event of the same suite before the next suite-running event.  *)
(* The code breaks it: a label that is no regular expression makes         *)
(* checkTestResult throw, run() rejects and never fires finished.          *)
(***************************************************************************)
SuiteEvents(tr) == SelectSeq(tr, LAMBDA e : e.type = "suite")

C2_RunStateMachine ==
    \A t \in Calls : IsRun(t) =>
        LET ev == Events(trace[t])
            se == SuiteEvents(trace[t])
        IN  /\ ev # <<>>
            /\ ev[1].type = "started"
            /\ \A i \in 2..Len(ev) : ev[i].type # "started"
            /\ \A i \in DOMAIN ev : ev[i].type = "finished" => i = Len(ev)
            /\ call[t].pc \in {"done", "failed"} => ev[Len(ev)].type = "finished"
            /\ \A i \in DOMAIN se :
                  IF i % 2 = 1 THEN se[i].state = "running"
                  ELSE se[i].state = "completed" /\ se[i].suite = se[i - 1].suite

(***************************************************************************)
(* C9: the result a runMake or runExe call returns is the result of the    *)
(* process this call spawned: in every call's trace a result is that of    *)
(* the process spawned just before it.                                     *)
(***************************************************************************)
C9_OwnResult ==
    \A t \in Calls : \A i \in DOMAIN trace[t] :
        trace[t][i].type = "result" =>
            /\ i > 1
            /\ trace[t][i - 1].type = "spawn"
            /\ trace[t][i - 1].pid = trace[t][i].pid

\* A call was handed the result of its process while an older process of
\* another call in the same domain was still running.
C9_Witness ==
    \E p \in DOMAIN procs, q \in running :
        /\ q < p
        /\ p \notin running
        /\ procs[p].domain = procs[q].domain
        /\ procs[p].owner # procs[q].owner
        /\ \E i \in DOMAIN trace[procs[p].owner] :
              /\ trace[procs[p].owner][i].type = "result"
              /\ trace[procs[p].owner][i].pid = p

(***************************************************************************)
(* C10: cancel() fires no event and leaves the suite tree, both mutexes,   *)
(* both process slots and the watch lists unchanged; it only requests the  *)
(* termination of the processes in the slots that are set.                 *)
(***************************************************************************)
C10_CancelFrame ==
    [][cancels' # cancels =>
          /\ UNCHANGED <<trace, loadTrace, testSuiteInfo, makeMutex, suiteMutex,
                         makeProcess, suiteProcess, watchedFileForAutorunList,
                         watchedFileForReloadList, call, running>>
          /\ killed' = killed \cup ({makeProcess, suiteProcess} \ {None})]_vars

\* cancel() was called with a running process in a slot.
C10_Witness == cancels > 0 /\ killed \cap running # {}

(***************************************************************************)
(* More on traces: the suite an entry is about, the suites a list of ids   *)
(* resolves to.                                                            *)
(***************************************************************************)
AboutSuite(e) == e.type \in {"suite", "test", "checkTestResult"}

SuiteOfEntry(e) == IF e.type = "suite" THEN e.suite ELSE <<e.test[1]>>

IsPrefix(s, t) == Len(s) <= Len(t) /\ SubSeq(t, 1, Len(s)) = s

RECURSIVE ResolvedSuites(_, _, _)
\* The suites the ids of list resolve to in tree, from id i on.
ResolvedSuites(list, tree, i) ==
    IF i > Len(list) THEN <<>>
    ELSE LET suite == findSuite(tree, list[i]) IN
         (IF suite.type = "suite" THEN <<suite.id>> ELSE <<>>)
             \o ResolvedSuites(list, tree, i + 1)

ChildIds(tree) == [i \in DOMAIN tree.children |-> tree.children[i].id]

\* s is t with some elements left out.
RECURSIVE IsSubseq(_, _)
IsSubseq(s, t) ==
    IF s = <<>> THEN TRUE
    ELSE IF t = <<>> THEN FALSE
    ELSE IF Head(s) = Head(t) THEN IsSubseq(Tail(s), Tail(t))
    ELSE IsSubseq(s, Tail(t))

Expanded(t) == call[t].pc \notin {"idle", "foldersAcq", "foldersProc"}

Count(tr, Test(_)) == Len(SelectSeq(tr, Test))

\* The trees the loads published so far.
Published ==
    { loadTrace[l][2].suite : l \in {m \in Loads : Len(loadTrace[m]) = 2} }

(***************************************************************************)
(* C3 as claimed: run(['root']) runs every top-level suite of the tree it  *)
(* expanded exactly once, in the order of the children array, with one     *)
(* suite-running event, one build and one suite-completed event per suite, *)
(* also when a load() completes while the run is in progress.              *)
(***************************************************************************)
IsRootRun(t) == IsRun(t) /\ call[t].tests = <<RootId>>

Builds(tr) ==
    Len(SelectSeq(tr, LAMBDA e : IsSpawn(e, "make")))
        - (IF Len(tr) >= 2 /\ IsSpawn(tr[2], "make") THEN 1 ELSE 0)

C4_RequestOrder ==
    \A t \in Calls : IsRun(t) /\ Expanded(t) =>
        LET tr       == trace[t]
            expected == ResolvedSuites(call[t].list, testSuiteInfo, 1)
        IN  /\ IsPrefix(RanSuites(tr), expected)
            /\ call[t].pc = "done" => RanSuites(tr) = expected
            /\ \A i \in DOMAIN tr :
                  /\ IsSuiteEvent(tr[i], "running") =>
                        \A j \in (i + 1)..(NextId(tr, i) - 1) :
                            AboutSuite(tr[j]) => SuiteOfEntry(tr[j]) = tr[i].suite
                  /\ IsSpawn(tr[i], "make") =>
                        tr[i - 1].type = "started" \/ IsSuiteEvent(tr[i - 1], "running")
                  /\ IsSpawn(tr[i], "exe") =>
                        /\ IsBuildResult(tr, i - 1)
                        /\ ~tr[i - 1].error
                        /\ tr[i - 1].pid = tr[i - 2].pid
                        /\ tr[i - 1].pid \notin running

\* A run ended that ran two suites and spawned an executable.
C4_Witness ==
    \E t \in Calls :
        /\ IsRun(t) /\ call[t].pc = "done"
        /\ Len(RanSuites(trace[t])) >= 2
        /\ \E i \in DOMAIN trace[t] : IsSpawn(trace[t][i], "exe")

(***************************************************************************)
(* C5: when the result of a suite has an error and an empty stdout, a      *)
(* failed event is fired for every child test of the suite and             *)
(* checkTestResult is not invoked for the suite, for a suite id and for a  *)
(* test id.                                                                *)
(***************************************************************************)
SuiteNode(id) == findNode(testSuiteInfo, id)

C5_ErrorFailsEveryTest ==
    \A t \in Calls : IsRun(t) =>
        LET tr == trace[t] IN
        \A i \in DOMAIN tr :
            (IsBuildResult(tr, i) \/ IsExeResult(tr, i)) /\ tr[i].errorOnly =>
                LET children == SuiteNode(SuiteAt(tr, i)).children
                    those    == (i + 1)..(NextId(tr, i) - 1)
                IN  /\ \A c \in DOMAIN children : \E j \in those :
                          tr[j] = TestEvent(children[c].id, "failed", <<>>)
                    /\ \A j \in those : tr[j].type # "checkTestResult"

\* A run asked for a test got an error and no stdout from the executable of
\* the suite, which has another test.
C5_Witness ==
    \E t \in Calls :
        /\ IsRun(t)
        /\ call[t].tests # <<>> /\ call[t].tests[1] = TestId(FileA, NameB)
        /\ \E i \in DOMAIN trace[t] :
              IsExeResult(trace[t], i) /\ trace[t][i].errorOnly

(***************************************************************************)
(* C6: when the build of a suite returns an error, no executable is        *)
(* spawned for the suite in this iteration, the error is shown and the     *)
(* suite gets its completed event.                                         *)
(***************************************************************************)
C6_BuildErrorAborts ==
    \A t \in Calls : IsRun(t) =>
        LET tr == trace[t] IN
        \A i \in DOMAIN tr :
            IsBuildResult(tr, i) /\ tr[i].error =>
                /\ i + 2 <= Len(tr)
                /\ tr[i + 1] = ErrorMessage("Cannot build test executable")
                /\ tr[i + 2] = SuiteEvent(tr[i - 2].suite, "completed")
                /\ \A j \in (i + 1)..(NextId(tr, i) - 1) : ~IsSpawn(tr[j], "exe")

\* A run was handed the error of a build and went on to the next id.
C6_Witness ==
    \E t \in Calls :
        /\ IsRun(t)
        /\ \E i \in DOMAIN trace[t] :
              /\ IsBuildResult(trace[t], i) /\ trace[t][i].error
              /\ NextId(trace[t], i) <= Len(trace[t])

(***************************************************************************)
(* C7 as claimed: when the output has no result line for a checked test,   *)
(* checking the test fires no event and raises no error.                   *)
(***************************************************************************)
NoResultLine(label, suiteResult) ==
    \A k \in DOMAIN suiteResult :
        ~(suiteResult[k].kind = "result" /\ IsSuffix(label, suiteResult[k].name))

IsNoMatch(e) == e.type = "checkTestResult" /\ NoResultLine(e.label, e.suiteResult)

C8_ScanYieldsFiles ==
    \A l \in Loads : load[l].pc = "read" =>
        \A k \in DOMAIN load[l].files : load[l].files[k] \in Files

(***************************************************************************)
(* SpecLive: run() calls and cancel() after the first load, where a ticket *)
(* holder runs on (a microtask) and every spawned process delivers its     *)
(* completion callback.                                                    *)
(***************************************************************************)
LiveNext ==
    \/ \E t \in Calls, tests \in Requests : run(t, tests)
    \/ \E t \in Calls : runMake(t)
    \/ \E t \in Calls : runExe(t)
    \/ \E pid \in running, result \in Results : processExit(pid, result)
    \/ cancel

Delivers(pid) == \E result \in Results : processExit(pid, result)

Fairness ==
    /\ \A t \in Calls : WF_vars(runMake(t)) /\ WF_vars(runExe(t))
    /\ \A pid \in 1..MaxProcs : WF_vars(Delivers(pid))

SpecLive == Init /\ [][LiveNext]_vars /\ Fairness

\* No further process is spawned in the behaviour: the bound of the model.
Exhausted == Len(procs) = MaxProcs

Waits(m, t) == \E i \in DOMAIN m.queue : m.queue[i] = t

FiredFinished(t) == \E i \in DOMAIN trace[t] : trace[t][i].type = "finished"

(***************************************************************************)
(* C11: if every spawned process delivers its completion callback, every   *)
(* acquired build or execute lock is eventually released, no caller waits  *)
(* forever on a lock, and every run() call eventually fires run-finished,  *)
(* with and without a cancel().                                            *)
(* The code breaks the last part: a run() whose checkTestResult throws on  *)
(* a label that is no regular expression rejects without run-finished.     *)
(***************************************************************************)
C11_LocksReleased ==
    \A t \in Calls :
        /\ (makeMutex.holder = t) ~> (makeMutex.holder # t \/ Exhausted)
        /\ (suiteMutex.holder = t) ~> (suiteMutex.holder # t \/ Exhausted)
        /\ Waits(makeMutex, t) ~> (~Waits(makeMutex, t) \/ Exhausted)
        /\ Waits(suiteMutex, t) ~> (~Waits(suiteMutex, t) \/ Exhausted)

C11_RunsFinish ==
    \A t \in Calls : IsRun(t) ~> (FiredFinished(t) \/ Exhausted)

C11_Terminates == C11_LocksReleased /\ C11_RunsFinish

(***************************************************************************)
(* Reading the loads.                                                      *)
(***************************************************************************)
\* Load l completes in this step.
Completes(l) == load[l].pc \in {"scan", "read"} /\ load'[l].pc = "done"

\* Load l fails in this step.
Fails(l) == load[l].pc \in {"scan", "read"} /\ load'[l].pc = "failed"

\* The trees a load can build: one suite per test file of some scan.
FullTrees ==
    { TreeOf(getFileList(WsDir, "testSourceRegex", fs), isPrettyTestLabelEnable) :
        fs \in FsSnapshots }

(***************************************************************************)
(* C12: the current tree changes only when a load completes, it is then    *)
(* the tree this load built from the files it scanned, and the finished    *)
(* event of the load carries this tree: when two loads overlap, the tree   *)
(* of the load that completes last is the current one.                     *)
(***************************************************************************)
C12_LastWriterWins ==
    [][/\ testSuiteInfo' # testSuiteInfo => \E l \in Loads : Completes(l)
       /\ \A l \in Loads : Completes(l) =>
             /\ load[l].pc = "read" =>
                   testSuiteInfo' = TreeOf(load[l].files, isPrettyTestLabelEnable)
             /\ loadTrace'[l] = <<LoadStarted, LoadFinished(testSuiteInfo')>>]_vars

\* Two loads overlapped and built different trees; the first one completed
\* last and its tree is the current one.
C12_Witness ==
    /\ load[1].pc = "done" /\ load[2].pc = "done"
    /\ loadTrace[1][2].suite # loadTrace[2][2].suite
    /\ loadTrace[2][2].suite.children # <<>>
    /\ testSuiteInfo = loadTrace[1][2].suite

(***************************************************************************)
(* C17: a load whose readFile fails has fired started and never fires      *)
(* finished, the call fails, and the failure leaves the current tree as it *)
(* was: the current tree is always the constructor's empty tree or the     *)
(* complete tree a load that completed published.                          *)
(***************************************************************************)
C17_ReadFailureKeepsTree ==
    /\ [](\A l \in Loads : load[l].pc = "failed" => loadTrace[l] = <<LoadStarted>>)
    /\ [](testSuiteInfo \in Published \cup {RootOf(<<>>)})
    /\ [](Published \subseteq FullTrees)
    /\ [][\A l \in Loads : Fails(l) =>
              /\ testSuiteInfo' = testSuiteInfo
              /\ loadTrace' = loadTrace]_vars

\* A load failed on a readFile after another load had published its tree.
C17_Witness ==
    \E l, m \in Loads :
        /\ load[l].pc = "failed" /\ load[m].pc = "done"
        /\ testSuiteInfo.children # <<>>
        /\ loadTrace[l] = <<LoadStarted>>

(***************************************************************************)
(* C13: two builds of the suite tree from the same files yield the same    *)
(* tree, also when they run as overlapping loads that share the global     *)
(* regex testNameRegex: at every suspension point of loadTests lastIndex   *)
(* is 0, the suites a load has built so far are those of a build on its    *)
(* own, and so is the tree it publishes.                                   *)
(***************************************************************************)
C13_SameFilesSameTree ==
    /\ [](testNameRegex = 0)
    /\ [](\A l \in Loads : load[l].pc = "read" =>
             load[l].children =
                 SubSeq(TreeOf(load[l].files, isPrettyTestLabelEnable).children,
                        1, load[l].k - 1))
    /\ [][\A l \in Loads : load[l].pc = "read" /\ load'[l].pc = "done" =>
              loadTrace'[l][2].suite = TreeOf(load[l].files, isPrettyTestLabelEnable)]_vars

\* Two loads of the same files overlap: one has parsed a file with tests,
\* the other is still reading its first file.
C13_Witness ==
    \E l, m \in Loads :
        /\ load[l].pc = "read" /\ load[m].pc = "read"
        /\ load[l].files = load[m].files
        /\ load[l].k > 1 /\ load[m].k = 1
        /\ load[l].children[1].children # <<>>

(***************************************************************************)
(* SpecParse: the Result Parser on its own.  The host calls                *)
(* checkTestResult for a test of a.c_test with some name, labelled with or *)
(* without prettification, and an output of up to MaxLines result lines.   *)
(***************************************************************************)
MaxLines == 2

NameXA == <<"test_", "x_", "test_", "a">>     \* test_x_test_a

ParseNames == {NameA, NameB, NameC, NameXA}

ParseLines ==
    { ResultLine(12, NameA, TRUE, ""),
      ResultLine(20, NameA, FALSE, "Expected 4 Was 5"),
      ResultLine(7, NameXA, TRUE, ""),
      ResultLine(9, NameXA, FALSE, "Expected 1 Was 0"),
      ResultLine(105, NameB, TRUE, "") }

Outputs == UNION { [1..n -> ParseLines] : n \in 0..MaxLines }

checkTest(testName, suiteResult) ==
    LET node == TestInfoOf(FileA, [name |-> testName, line |-> 0], isPrettyTestLabelEnable)
        r    == checkTestResult(node, suiteResult)
    IN  /\ call' = [call EXCEPT ![1] = [NoCall EXCEPT !.kind = "checkTestResult",
                                           !.pc = IF r.thrown THEN "failed" ELSE "done"]]
        /\ trace' = [trace EXCEPT ![1] = r.fired]
        /\ UNCHANGED <<config, testSuiteInfo, watchLists, slots, mutexes,
                       g_debugTestExecutable, processes, killed, cancels, loads>>

ParseNext == \E testName \in ParseNames, suiteResult \in Outputs : checkTest(testName, suiteResult)

SpecParse == Constructed /\ [][ParseNext]_vars

\* The name of the test function of a test id.
NameOfTest(id) == SubSeq(id, 3, Len(id))

\* The first line of an output that satisfies Test, 0 without one.
FirstLine(suiteResult, Test(_)) ==
    IF \E k \in DOMAIN suiteResult : Test(suiteResult[k])
    THEN CHOOSE k \in DOMAIN suiteResult :
            Test(suiteResult[k]) /\ \A j \in 1..(k - 1) : ~Test(suiteResult[j])
    ELSE 0

\* The passed and failed events of a trace.
Verdicts(tr) ==
    SelectSeq(tr, LAMBDA e : e.type = "test" /\ e.state \in {"passed", "failed"})

(***************************************************************************)
(* C14: for a checked test whose first matching result line carries the    *)
(* line number n, a passed event is fired if the line ends in PASS, and a  *)
(* failed event with the decoration (line n - 1, the message of the line)  *)
(* if it ends in FAIL: <message>.                                          *)
(***************************************************************************)
C14_LineAndMessage ==
    \A t \in Calls : \A i \in DOMAIN trace[t] :
        trace[t][i].type = "checkTestResult" =>
            LET e == trace[t][i]
                k == FirstLine(e.suiteResult,
                               LAMBDA ln : ln.kind = "result" /\ IsSuffix(e.label, ln.name))
            IN  k # 0 =>
                    /\ i + 2 <= Len(trace[t])
                    /\ trace[t][i + 2] =
                          IF e.suiteResult[k].pass
                          THEN TestEvent(e.test, "passed", <<>>)
                          ELSE TestEvent(e.test, "failed",
                                         << [line    |-> e.suiteResult[k].num - 1,
                                             message |-> e.suiteResult[k].msg] >>)

\* A test was checked against an output whose first matching line is a
\* failure on a line of several digits, after a line of another test.
C14_Witness ==
    \E i \in DOMAIN trace[1] :
        /\ trace[1][i].type = "checkTestResult"
        /\ Len(trace[1][i].suiteResult) = 2
        /\ trace[1][i].suiteResult[1].name = NameB
        /\ trace[1][i].suiteResult[2] = ResultLine(20, NameA, FALSE, "Expected 4 Was 5")
        /\ trace[1][i].test = TestId(FileA, NameA)
        /\ Verdicts(trace[1]) # <<>>

(***************************************************************************)
(* C16: the passed or failed state reported for a test is that of the      *)
(* result line of the test itself, the first line whose name field is the  *)
(* name of the test, with and without prettified labels.                   *)
(* The code breaks it: the pattern ":([0-9]+):.*" + label also matches the *)
(* line of a test whose name ends with the label, and the first match      *)
(* decides.                                                                *)
(***************************************************************************)
C16_OwnResultLine ==
    \A t \in Calls : \A i \in DOMAIN trace[t] :
        trace[t][i].type = "test" /\ trace[t][i].state \in {"passed", "failed"} =>
            \E j \in 1..(i - 1) :
                /\ trace[t][j].type = "checkTestResult"
                /\ trace[t][j].test = trace[t][i].test
                /\ LET out == trace[t][j].suiteResult
                       k   == FirstLine(out, LAMBDA ln : ln.kind = "result" /\
                                            ln.name = NameOfTest(trace[t][i].test))
                   IN  /\ k # 0
                       /\ out[k].pass <=> trace[t][i].state = "passed"

(***************************************************************************)
(* Reading a run: the requested id an entry of the trace belongs to.       *)
(***************************************************************************)
RECURSIVE ResolvedIds(_, _, _)
\* The ids of list that resolve to a suite in tree, from id i on.
ResolvedIds(list, tree, i) ==
    IF i > Len(list) THEN <<>>
    ELSE (IF findSuite(tree, list[i]).type = "suite" THEN <<list[i]>> ELSE <<>>)
             \o ResolvedIds(list, tree, i + 1)

\* The requested id that call t is processing at entry i of its trace.
RequestedAt(t, i) ==
    ResolvedIds(call[t].list, testSuiteInfo, 1)
        [Count(SubSeq(trace[t], 1, i), LAMBDA e : IsSuiteEvent(e, "running"))]

\* Entry i of tr is the result runSuiteExe returns to runSuites.
IsSuiteResult(tr, i) ==
    IsExeResult(tr, i) \/ (IsBuildResult(tr, i) /\ tr[i].error)

\* The tests of the checkTestResult entries of a trace, in order.
CheckedTests(tr) ==
    LET ch == SelectSeq(tr, LAMBDA e : e.type = "checkTestResult") IN
    [j \in DOMAIN ch |-> ch[j].test]

(***************************************************************************)
(* C15: when the result of a suite is not an error with an empty stdout,   *)
(* checkTestResult is invoked for every test of the suite and no other if  *)
(* the requested id is the suite, and for the requested test alone if it   *)
(* is a test, whose siblings then get no event.                            *)
(* The code breaks it: a label that is no regular expression makes         *)
(* checkTestResult throw, and the tests after it are never checked.        *)
(***************************************************************************)
C15_ChecksRequested ==
    \A t \in Calls : IsRun(t) =>
        LET tr == trace[t] IN
        \A i \in DOMAIN tr :
            IsSuiteResult(tr, i) /\ ~tr[i].errorOnly =>
                LET id      == RequestedAt(t, i)
                    suite   == findSuite(testSuiteInfo, id)
                    last    == NextId(tr, i) - 1
                    checked == CheckedTests(SubSeq(tr, i + 1, last))
                IN  IF id = suite.id
                    THEN checked = [c \in DOMAIN suite.children |-> suite.children[c].id]
                    ELSE /\ checked = <<id>>
                         /\ \A j \in (i + 1)..last : tr[j].type = "test" => tr[j].test = id

(***************************************************************************)
(* C18: while a debug() call waits for the launch of the debugger for a    *)
(* suite, getDebugTestExecutable() returns the path of the executable of   *)
(* that suite, and it returns the empty string when no debug() call is in  *)
(* progress, however debug() calls overlap.                                *)
(* The code breaks it: g_debugTestExecutable is one global that every      *)
(* debug() call sets and every debug() call clears in its finally block.   *)
(***************************************************************************)
DebugInProgress(t) ==
    call[t].kind = "debug" /\ call[t].pc \notin {"idle", "done", "failed"}

C18_DebugTarget ==
    /\ \A t \in Calls :
          call[t].kind = "debug" /\ call[t].pc = "dbgWait" =>
              getDebugTestExecutable = exePath(call[t].suite.file)
    /\ (\A t \in Calls : ~DebugInProgress(t)) => getDebugTestExecutable = <<>>

(***************************************************************************)
(* C19: the process slots are never cleared: once a process was spawned in *)
(* a domain the slot refers to the process spawned last in that domain,    *)
(* and cancel() sends a kill to exactly the processes in the two slots,    *)
(* completed or not, and to no process spawned earlier.                    *)
(***************************************************************************)
\* The process spawned last in a domain, None before the first.
LastOf(domain) ==
    LET pids == {pid \in DOMAIN procs : procs[pid].domain = domain} IN
    IF pids = {} THEN None ELSE CHOOSE pid \in pids : \A q \in pids : q <= pid

C19_SlotsKeepLast ==
    /\ [](makeProcess = LastOf("make") /\ suiteProcess = LastOf("exe"))
    /\ [][/\ makeProcess # None => makeProcess' # None
          /\ suiteProcess # None => suiteProcess' # None
          /\ cancels' # cancels =>
                killed' = killed \cup ({LastOf("make"), LastOf("exe")} \ {None})]_vars

\* cancel() was called when the executable in the slot had completed (its
\* owner had gone on to the next build, also killed) while an older build
\* of another call was running, which got no kill.
C19_Witness ==
    \E p, m \in killed, q \in running :
        /\ procs[p].domain = "exe" /\ procs[m].domain = "make"
        /\ procs[p].owner = procs[m].owner /\ p < m
        /\ p \notin running
        /\ procs[q].domain = "make" /\ q < m /\ q \notin killed

(***************************************************************************)
(* C20: cancel() does not stop the run loop: a run whose process was       *)
(* killed while it ran still gets its suite-completed event, goes on with  *)
(* a build for every remaining id and ends with run-finished.              *)
(* The code breaks the last part when a later id has a test whose label is *)
(* no regular expression: checkTestResult throws and the run never fires   *)
(* run-finished.                                                           *)
(***************************************************************************)
Cancelled(t) ==
    IsRun(t) /\ \E pid \in killed \cap running : procs[pid].owner = t

RanEveryId(t) ==
    /\ FiredFinished(t)
    /\ RanSuites(trace[t]) = ResolvedSuites(call[t].list, testSuiteInfo, 1)
    /\ Count(trace[t], LAMBDA e : IsSuiteEvent(e, "completed")) = Len(RanSuites(trace[t]))
    /\ Builds(trace[t]) = Len(RanSuites(trace[t]))

C20_CancelKeepsLoop ==
    \A t \in Calls : Cancelled(t) ~> (RanEveryId(t) \/ Exhausted)

(***************************************************************************)
(* C21: within a run every test event of a suite is fired after the        *)
(* completed event of the suite and before the running event of the next   *)
(* id, never between the running and the completed event of a suite: the   *)
(* last suite event a run fired before a test event is the completed event *)
(* of the suite of the test.                                               *)
(***************************************************************************)
\* The last suite event of tr before entry j, 0 without one.
LastSuiteEvent(tr, j) ==
    IF \E i \in 1..(j - 1) : tr[i].type = "suite"
    THEN CHOOSE i \in 1..(j - 1) :
            tr[i].type = "suite" /\ \A k \in (i + 1)..(j - 1) : tr[k].type # "suite"
    ELSE 0

C21_TestEventsAfterCompleted ==
    \A t \in Calls : IsRun(t) =>
        LET tr == trace[t] IN
        \A j \in DOMAIN tr :
            tr[j].type = "test" =>
                LET i == LastSuiteEvent(tr, j) IN
                /\ i # 0
                /\ tr[i] = SuiteEvent(<<tr[j].test[1]>>, "completed")

\* A run reported a test of a suite whose executable ran, then went on to
\* the next id.
C21_Witness ==
    \E t \in Calls : IsRun(t) /\
        \E i, j, k \in DOMAIN trace[t] :
            /\ i < j /\ j < k
            /\ IsExeResult(trace[t], i)
            /\ trace[t][j].type = "test" /\ trace[t][j].state \in {"passed", "failed"}
            /\ IsSuiteEvent(trace[t][k], "running")
            /\ trace[t][k].suite # <<trace[t][j].test[1]>>

====
